---- MODULE Spec2Model ----
(***************************************************************************)
(* Model of src/main.py: the daily "top 50 songs per country / per user"   *)
(* job.  A log line is a sequence of one-character strings, a dataframe is *)
(* a sequence of row records, an output file is a sequence of line         *)
(* records.                                                                *)
(***************************************************************************)
EXTENDS Integers, Sequences, FiniteSets, TLC

VARIABLES
    day,                \* the calendar day the wall clock shows
    TODAY,              \* main.py:12, evaluated once when the module is imported
    logfile,            \* content of logs/listen-<TODAY>.log, or NoFile
    pc,                 \* position of the process
    pos,                \* read_log_file: index of the next line of the file
    rows,               \* rows yielded so far by the read_log_file generator
    warnings,           \* lines reported by logging.warning, in order
    streams_dataframe,  \* main.py:139
    top50_songs_per_country,   \* main.py:145
    top50_songs_per_user,      \* main.py:151
    country_file,       \* output/country_top50<TODAY>.txt
    user_file,          \* output/user_top50<TODAY>.txt
    runs                \* one record per call of main() made by the scheduler

vars == <<day, TODAY, logfile, pc, pos, rows, warnings, streams_dataframe,
          top50_songs_per_country, top50_songs_per_user, country_file,
          user_file, runs>>

----------------------------------------------------------------------------
(* Bounds of the model *)

\* longest log file built freely from SampleLines
MaxLines == 3
\* last calendar day on which the scheduler fires
MaxDay == 3
\* largest number of distinct songs in the one-group log files
MaxSongs == 52

\* nlargest(50, ...) and head(50)
TopK == 50

\* a file that does not exist, an existing file with these lines, and the
\* report a process started earlier on the same date left behind
NoFile == [exists |-> FALSE, lines |-> <<>>]
File(lines) == [exists |-> TRUE, lines |-> lines]
StaleReport == File(<<[entity |-> <<>>, text |-> <<"|">>, pairs |-> <<>>]>>)

----------------------------------------------------------------------------
(* Text: str.strip, str.split, int(), str.join and integer formatting *)

Digits == <<"0", "1", "2", "3", "4", "5", "6", "7", "8", "9">>

IsDigit(c) == \E i \in 1..10 : Digits[i] = c

DigitVal(c) == (CHOOSE i \in 1..10 : Digits[i] = c) - 1

IsSpace(c) == c \in {" ", "\n", "\t"}

RECURSIVE LStrip(_)
LStrip(s) ==
    IF s # <<>> /\ IsSpace(Head(s)) THEN LStrip(Tail(s)) ELSE s

RECURSIVE RStrip(_)
RStrip(s) ==
    IF s # <<>> /\ IsSpace(s[Len(s)]) THEN RStrip(SubSeq(s, 1, Len(s) - 1)) ELSE s

\* str.strip()
Strip(s) == RStrip(LStrip(s))

\* str.split('|'): the fields between the separators, empty fields kept
RECURSIVE Split(_, _)
Split(s, sep) ==
    IF \E i \in 1..Len(s) : s[i] = sep
    THEN LET i == CHOOSE k \in 1..Len(s) :
                      s[k] = sep /\ \A j \in 1..(k - 1) : s[j] # sep
         IN  <<SubSeq(s, 1, i - 1)>> \o Split(SubSeq(s, i + 1, Len(s)), sep)
    ELSE <<s>>

RECURSIVE DigitsValue(_)
DigitsValue(s) ==
    IF s = <<>> THEN 0
    ELSE 10 * DigitsValue(SubSeq(s, 1, Len(s) - 1)) + DigitVal(s[Len(s)])

\* the text Python's int() is applied to, without surrounding blanks and sign
Unsigned(s) ==
    LET t == Strip(s)
    IN  IF t # <<>> /\ Head(t) \in {"-", "+"} THEN Tail(t) ELSE t

\* int(s) does not raise ValueError
IsIntLiteral(s) ==
    /\ Unsigned(s) # <<>>
    /\ \A i \in 1..Len(Unsigned(s)) : IsDigit(Unsigned(s)[i])

\* int(s)
ParseInt(s) ==
    LET t == Strip(s)
    IN  IF Head(t) = "-" THEN 0 - DigitsValue(Unsigned(s))
        ELSE DigitsValue(Unsigned(s))

RECURSIVE FormatNat(_)
FormatNat(n) ==
    IF n < 10 THEN <<Digits[n + 1]>>
    ELSE FormatNat(n \div 10) \o <<Digits[(n % 10) + 1]>>

\* f"{n}" of an integer
FormatInt(n) == IF n < 0 THEN <<"-">> \o FormatNat(0 - n) ELSE FormatNat(n)

\* sep.join(parts)
RECURSIVE Join(_, _)
Join(sep, parts) ==
    IF parts = <<>> THEN <<>>
    ELSE IF Len(parts) = 1 THEN parts[1]
    ELSE parts[1] \o sep \o Join(sep, Tail(parts))

\* order of Python strings (by code point) on the characters of the model
CharRank(c) ==
    IF IsDigit(c) THEN DigitVal(c)
    ELSE CASE c = "A" -> 10 [] c = "D" -> 11 [] c = "E" -> 12
           [] c = "F" -> 13 [] c = "R" -> 14 [] OTHER -> 15

RECURSIVE StrLess(_, _)
StrLess(a, b) ==
    IF b = <<>> THEN FALSE
    ELSE IF a = <<>> THEN TRUE
    ELSE IF Head(a) # Head(b) THEN CharRank(Head(a)) < CharRank(Head(b))
    ELSE StrLess(Tail(a), Tail(b))

----------------------------------------------------------------------------
(* Log files the run may be handed *)

\* one line of a log file as `for line in file` returns it
MkLine(fields) == Join(<<"|">>, fields) \o <<"\n">>

FR == <<"F", "R">>
DE == <<"D", "E">>
FRA == <<"F", "R", "A">>
NotANumber == <<"n", "o", "t", "_", "a", "_", "n", "u", "m", "b", "e", "r">>

StreamLine(song, user, country) ==
    MkLine(<<FormatInt(song), FormatInt(user), country>>)

\* the lines the freely built log files are made of
SampleLines ==
    { StreamLine(1, 10, FR),
      StreamLine(2, 10, FR),
      StreamLine(1, 20, DE),
      StreamLine(1, 0 - 3, FR),
      StreamLine(2, 10, FRA),
      StreamLine(0, 20, DE),
      MkLine(<<NotANumber, FormatInt(10), FR>>),
      MkLine(<<FormatInt(1), FormatInt(10)>>) }

RECURSIVE SeqsUpTo(_, _)
SeqsUpTo(S, n) ==
    IF n = 0 THEN {<<>>}
    ELSE LET shorter == SeqsUpTo(S, n - 1)
         IN  shorter \cup {Append(q, x) : q \in shorter, x \in S}

\* the malformed-line scenario and the multi-group scenario
ScenarioLogs ==
    { << StreamLine(101, 55, FR),
         MkLine(<<NotANumber, FormatInt(55), FR>>),
         StreamLine(101, 0 - 3, FR),
         StreamLine(102, 55, FRA),
         StreamLine(103, 55, DE) >>,
      << StreamLine(1, 10, FR),
         StreamLine(1, 10, FR),
         StreamLine(2, 10, FR),
         StreamLine(1, 20, DE) >> }

\* listener 7 in FR plays songs n, n-1, ..., 1 once each, then song hot again
OneGroupLog(n, hot) ==
    [i \in 1..(n + 1) |->
        IF i <= n THEN StreamLine(n + 1 - i, 7, FR) ELSE StreamLine(hot, 7, FR)]

OneGroupLogs ==
    { OneGroupLog(n, hot) : n \in {3, 4} \cup (TopK - 1)..MaxSongs,
                            hot \in {1, 3, TopK + 1} }

Logs == SeqsUpTo(SampleLines, MaxLines) \cup ScenarioLogs \cup OneGroupLogs

----------------------------------------------------------------------------
(* read_log_file *)

Fields(line) == Split(Strip(line), "|")

\* the try block of read_log_file raises: the unpacking or one of the int() calls
LineRaises(line) ==
    \/ Len(Fields(line)) # 3
    \/ ~IsIntLiteral(Fields(line)[1])
    \/ ~IsIntLiteral(Fields(line)[2])

\* the list read_log_file yields for a line
YieldedRow(line) ==
    [song_id |-> ParseInt(Fields(line)[1]),
     user_id |-> ParseInt(Fields(line)[2]),
     country |-> Fields(line)[3]]

----------------------------------------------------------------------------
(* Dataframes *)

KeyOf(row, column_name) ==
    IF column_name = "country" THEN row.country ELSE row.user_id

\* order in which pandas sorts the values of a column
KeyLess(column_name, a, b) ==
    IF column_name = "country" THEN StrLess(a, b) ELSE a < b

RECURSIVE SortKeys(_, _)
SortKeys(column_name, S) ==
    IF S = {} THEN <<>>
    ELSE LET m == CHOOSE x \in S : \A y \in S \ {x} : KeyLess(column_name, x, y)
         IN  <<m>> \o SortKeys(column_name, S \ {m})

RECURSIVE Unique(_)
\* Series.unique(): the values in order of first appearance
Unique(s) ==
    IF s = <<>> THEN <<>>
    ELSE LET front == Unique(SubSeq(s, 1, Len(s) - 1))
         IN  IF \E i \in 1..Len(front) : front[i] = s[Len(s)]
             THEN front ELSE Append(front, s[Len(s)])

\* df[column_name].unique()
ColumnUnique(df, column_name) ==
    Unique([i \in 1..Len(df) |-> KeyOf(df[i], column_name)])

\* groupby(..., sort=False): the groups in order of first appearance
GroupKeysUnsorted(df, column_name) == ColumnUnique(df, column_name)

\* the keys of the groups of df.groupby(column_name), in group order (sort=True)
GroupKeys(df, column_name) ==
    SortKeys(column_name, {KeyOf(df[i], column_name) : i \in 1..Len(df)})

RECURSIVE Flatten(_)
Flatten(ss) == IF ss = <<>> THEN <<>> ELSE Head(ss) \o Flatten(Tail(ss))

\* number of rows of df with this key and this song
GroupSize(df, column_name, k, s) ==
    Cardinality({i \in 1..Len(df) :
                    KeyOf(df[i], column_name) = k /\ df[i].song_id = s})

\* a row of the frame of counts: the grouping column, song_id and count
CountRow(column_name, k, s, n) ==
    IF column_name = "country"
    THEN [country |-> k, song_id |-> s, count |-> n]
    ELSE [user_id |-> k, song_id |-> s, count |-> n]

\* df.groupby([column_name, "song_id"]).size().reset_index(name="count")
GroupBySize(df, column_name) ==
    LET keys == GroupKeys(df, column_name)
        songs(k) == SortKeys("song_id",
                       {df[i].song_id : i \in {j \in 1..Len(df) :
                                                 KeyOf(df[j], column_name) = k}})
        group(k) == [i \in 1..Len(songs(k)) |->
                        CountRow(column_name, k, songs(k)[i],
                                 GroupSize(df, column_name, k, songs(k)[i]))]
    IN  Flatten([i \in 1..Len(keys) |-> group(keys[i])])

RemoveAt(s, i) == SubSeq(s, 1, i - 1) \o SubSeq(s, i + 1, Len(s))

\* x.head(n)
HeadRows(n, x) == SubSeq(x, 1, IF Len(x) < n THEN Len(x) ELSE n)

\* x.head(n) in place of x.nlargest(n, "count")
NLargestUnsorted(n, x) == HeadRows(n, x)

RECURSIVE NLargest(_, _)
\* x.nlargest(n, "count"), keep="first": largest count first, rows of equal
\* count in the order they have in x
NLargest(n, x) ==
    IF n = 0 \/ x = <<>> THEN <<>>
    ELSE LET i == CHOOSE k \in 1..Len(x) :
                      /\ \A j \in 1..Len(x) : x[j].count <= x[k].count
                      /\ \A j \in 1..(k - 1) : x[j].count < x[k].count
         IN  <<x[i]>> \o NLargest(n - 1, RemoveAt(x, i))

\* df[df[column_name] == k]
RowsOf(df, column_name, k) == SelectSeq(df, LAMBDA r : KeyOf(r, column_name) = k)

generate_column_wise_top_50(df, column_name) ==
    LET top_songs_df == GroupBySize(df, column_name)
        keys == GroupKeys(top_songs_df, column_name)
    IN  Flatten([i \in 1..Len(keys) |->
                    NLargest(TopK, RowsOf(top_songs_df, column_name, keys[i]))])

\* the views cleanup_streams_dataframe computes (and does not keep)
CleanupViews(df) ==
    << df,
       SelectSeq(df, LAMBDA r : Len(r.country) = 2),
       SelectSeq(df, LAMBDA r : r.user_id > 0),
       SelectSeq(df, LAMBDA r : r.song_id > 0) >>

----------------------------------------------------------------------------
(* write_results_to_file *)

FormatKey(entity_name, entity) ==
    IF entity_name = "country" THEN entity ELSE FormatInt(entity)

\* the list `lines` built by the iterrows loop
PairTexts(top_songs) ==
    [i \in 1..Len(top_songs) |->
        FormatInt(top_songs[i].song_id) \o <<":">> \o FormatInt(top_songs[i].count)]

\* the line written for one entity: its text without the final newline, and
\* the song:count pairs in the order the join call lays them out
EntityLine(entity_name, entity, top50_dataframe) ==
    LET top_songs == HeadRows(TopK, RowsOf(top50_dataframe, entity_name, entity))
        lines == PairTexts(top_songs)
    IN  [entity |-> entity,
         text |-> FormatKey(entity_name, entity) \o <<"|">>
                    \o Join(lines[1] \o <<",">>, Tail(lines)),
         pairs |-> Join(<<top_songs[1]>>,
                        [i \in 1..(Len(top_songs) - 1) |-> <<top_songs[i + 1]>>])]

\* content of the file after write_results_to_file; every entity of
\* top50_dataframe has a row, so lines[0] never raises
write_results_to_file(entity_name, top50_dataframe) ==
    LET entities == ColumnUnique(top50_dataframe, entity_name)
    IN  [i \in 1..Len(entities) |->
            EntityLine(entity_name, entities[i], top50_dataframe)]

----------------------------------------------------------------------------
(* The process: scheduler_function calling main once a day *)

\* the dataframe main holds after cleanup_streams_dataframe returns: every
\* view the function computes is dropped, none is assigned or returned
cleanup_streams_dataframe(df) ==
    LET views == CleanupViews(df) IN df

Init ==
    /\ day = 1
    /\ TODAY = day
    /\ logfile \in {NoFile} \cup {File(l) : l \in Logs}
    /\ pc = "scheduled"
    /\ pos = 0
    /\ rows = <<>>
    /\ warnings = <<>>
    /\ streams_dataframe = <<>>
    /\ top50_songs_per_country = <<>>
    /\ top50_songs_per_user = <<>>
    /\ country_file \in {NoFile, StaleReport}
    /\ user_file = country_file
    /\ runs = <<>>

\* schedule.run_pending() at 00:00 of the next day calls main(); main builds
\* the paths from the module globals
RunPending ==
    /\ pc = "scheduled"
    /\ day < MaxDay
    /\ day' = day + 1
    /\ runs' = Append(runs, [fired |-> day + 1, log_day |-> TODAY, output_day |-> TODAY])
    /\ pc' = "open"
    /\ pos' = 0
    /\ rows' = <<>>
    /\ warnings' = <<>>
    /\ streams_dataframe' = <<>>
    /\ top50_songs_per_country' = <<>>
    /\ top50_songs_per_user' = <<>>
    /\ UNCHANGED <<TODAY, logfile, country_file, user_file>>

\* pd.DataFrame starts the generator: open(log_file, 'r') succeeds
OpenLog ==
    /\ pc = "open"
    /\ logfile.exists
    /\ pc' = "lines"
    /\ pos' = 1
    /\ UNCHANGED <<day, TODAY, logfile, rows, warnings, streams_dataframe,
                   top50_songs_per_country, top50_songs_per_user,
                   country_file, user_file, runs>>

\* the error is swallowed and the run goes on with no lines
OpenFailsSilently ==
    /\ pc = "open"
    /\ ~logfile.exists
    /\ pc' = "lines"
    /\ pos' = 1
    /\ UNCHANGED <<day, TODAY, logfile, rows, warnings, streams_dataframe,
                   top50_songs_per_country, top50_songs_per_user,
                   country_file, user_file, runs>>

\* open(log_file, 'r') raises: the exception leaves main, run_pending and
\* scheduler_function, the process ends
OpenFails ==
    /\ pc = "open"
    /\ ~logfile.exists
    /\ pc' = "crashed"
    /\ UNCHANGED <<day, TODAY, logfile, pos, rows, warnings, streams_dataframe,
                   top50_songs_per_country, top50_songs_per_user,
                   country_file, user_file, runs>>

YieldLine ==
    /\ pc = "lines"
    /\ pos <= Len(logfile.lines)
    /\ ~LineRaises(logfile.lines[pos])
    /\ rows' = Append(rows, YieldedRow(logfile.lines[pos]))
    /\ pos' = pos + 1
    /\ UNCHANGED <<day, TODAY, logfile, pc, warnings, streams_dataframe,
                   top50_songs_per_country, top50_songs_per_user,
                   country_file, user_file, runs>>

SkipLine ==
    /\ pc = "lines"
    /\ pos <= Len(logfile.lines)
    /\ LineRaises(logfile.lines[pos])
    /\ warnings' = Append(warnings, pos)
    /\ pos' = pos + 1
    /\ UNCHANGED <<day, TODAY, logfile, pc, rows, streams_dataframe,
                   top50_songs_per_country, top50_songs_per_user,
                   country_file, user_file, runs>>

\* the generator is exhausted: convert_into_pandas_dataframe returns
EndOfFile ==
    /\ pc = "lines"
    /\ pos > Len(logfile.lines)
    /\ streams_dataframe' = rows
    /\ pc' = "cleanup"
    /\ UNCHANGED <<day, TODAY, logfile, pos, rows, warnings,
                   top50_songs_per_country, top50_songs_per_user,
                   country_file, user_file, runs>>

Cleanup ==
    /\ pc = "cleanup"
    /\ streams_dataframe' = cleanup_streams_dataframe(streams_dataframe)
    /\ pc' = "country_top50"
    /\ UNCHANGED <<day, TODAY, logfile, pos, rows, warnings,
                   top50_songs_per_country, top50_songs_per_user,
                   country_file, user_file, runs>>

GenerateCountry ==
    /\ pc = "country_top50"
    /\ top50_songs_per_country' =
           generate_column_wise_top_50(streams_dataframe, "country")
    /\ pc' = "country_write"
    /\ UNCHANGED <<day, TODAY, logfile, pos, rows, warnings, streams_dataframe,
                   top50_songs_per_user, country_file, user_file, runs>>

WriteCountry ==
    /\ pc = "country_write"
    /\ country_file' = File(write_results_to_file("country", top50_songs_per_country))
    /\ pc' = "user_top50"
    /\ UNCHANGED <<day, TODAY, logfile, pos, rows, warnings, streams_dataframe,
                   top50_songs_per_country, top50_songs_per_user, user_file, runs>>

GenerateUser ==
    /\ pc = "user_top50"
    /\ top50_songs_per_user' =
           generate_column_wise_top_50(streams_dataframe, "user_id")
    /\ pc' = "user_write"
    /\ UNCHANGED <<day, TODAY, logfile, pos, rows, warnings, streams_dataframe,
                   top50_songs_per_country, country_file, user_file, runs>>

\* main returns to the scheduler loop
WriteUser ==
    /\ pc = "user_write"
    /\ user_file' = File(write_results_to_file("user_id", top50_songs_per_user))
    /\ pc' = "scheduled"
    /\ UNCHANGED <<day, TODAY, logfile, pos, rows, warnings, streams_dataframe,
                   top50_songs_per_country, top50_songs_per_user, country_file, runs>>

Next ==
    \/ RunPending
    \/ OpenLog
    \/ OpenFails
    \/ YieldLine
    \/ SkipLine
    \/ EndOfFile
    \/ Cleanup
    \/ GenerateCountry
    \/ WriteCountry
    \/ GenerateUser
    \/ WriteUser

Spec == Init /\ [][Next]_vars

----------------------------------------------------------------------------
(* What the claims speak of *)

\* the validation rule of a line: three fields, integer ids, both positive,
\* a country code of two characters
IsValidLine(line) ==
    /\ ~LineRaises(line)
    /\ YieldedRow(line).song_id > 0
    /\ YieldedRow(line).user_id > 0
    /\ Len(YieldedRow(line).country) = 2

\* the events of the valid lines, in input order
ValidRows(lines) ==
    LET valid == SelectSeq(lines, IsValidLine)
    IN  [i \in 1..Len(valid) |-> YieldedRow(valid[i])]

\* number of valid lines with this group key and this song
ValidCount(lines, column_name, k, s) ==
    Cardinality({i \in 1..Len(lines) :
                    /\ IsValidLine(lines[i])
                    /\ KeyOf(YieldedRow(lines[i]), column_name) = k
                    /\ YieldedRow(lines[i]).song_id = s})

RunFinished == pc = "scheduled" /\ runs # <<>>

\* the rows aggregated in this run are exactly the events of the valid lines
OnlyValidRows == streams_dataframe = ValidRows(logfile.lines)

\* the dataframe has been cleaned up in the current call of main
Cleaned ==
    pc \in {"country_top50", "country_write", "user_top50", "user_write"} \/ RunFinished

CountryGenerated == pc \in {"country_write", "user_top50", "user_write"} \/ RunFinished
CountryWritten == pc \in {"user_top50", "user_write"} \/ RunFinished
UserGenerated == pc = "user_write" \/ RunFinished
UserWritten == RunFinished

\* position of the first row of df with this key
FirstSeen(df, column_name, k) ==
    CHOOSE i \in 1..Len(df) :
        /\ KeyOf(df[i], column_name) = k
        /\ \A j \in 1..(i - 1) : KeyOf(df[j], column_name) # k

SongsOfGroup(df, column_name, k) ==
    {df[i].song_id : i \in {j \in 1..Len(df) : KeyOf(df[j], column_name) = k}}

\* the line the format asks for: key, pipe, the pairs joined by commas
WellFormedText(entity_name, entity, top50_dataframe) ==
    FormatKey(entity_name, entity) \o <<"|">>
        \o Join(<<",">>, PairTexts(RowsOf(top50_dataframe, entity_name, entity)))

OneLinePerGroup(file, entity_name, top50_dataframe) ==
    /\ \A k \in {KeyOf(top50_dataframe[i], entity_name) : i \in 1..Len(top50_dataframe)} :
          Cardinality({i \in 1..Len(file.lines) : file.lines[i].entity = k}) = 1
    /\ \A i \in 1..Len(file.lines) :
          file.lines[i].text =
              WellFormedText(entity_name, file.lines[i].entity, top50_dataframe)

\* the file holds a report of this run: a line for every group, and no other
ReportOf(file, column_name) ==
    /\ file.exists
    /\ Len(file.lines) = Len(GroupKeys(streams_dataframe, column_name))
    /\ \A i \in 1..Len(file.lines) :
          \E j \in 1..Len(streams_dataframe) :
              KeyOf(streams_dataframe[j], column_name) = file.lines[i].entity

----------------------------------------------------------------------------
(* C1 *)

\* C1: a line contributes to the aggregations if and only if it is valid: the
\* rows that enter the aggregations are exactly the events of the valid lines.
C1_OnlyValidLinesContribute ==
    Cleaned => streams_dataframe = ValidRows(logfile.lines)

----------------------------------------------------------------------------
(* C2 *)

\* C2: every group gets exactly one line <group_key>|s1:c1,...,sn:cn, the
\* pairs of its leaderboard once each, in order, separated by commas (taken
\* on the runs whose aggregated rows are exactly the validated events).
C2_LineFormat ==
    OnlyValidRows =>
        /\ CountryWritten =>
              OneLinePerGroup(country_file, "country", top50_songs_per_country)
        /\ UserWritten =>
              OneLinePerGroup(user_file, "user_id", top50_songs_per_user)

----------------------------------------------------------------------------
(* C3 *)

FirstSeenOrder(file, column_name) ==
    \A i, j \in 1..Len(file.lines) :
        i < j => FirstSeen(streams_dataframe, column_name, file.lines[i].entity)
                   < FirstSeen(streams_dataframe, column_name, file.lines[j].entity)

KeyOrder(file, column_name) ==
    \A i, j \in 1..Len(file.lines) :
        i < j => KeyLess(column_name, file.lines[i].entity, file.lines[j].entity)

\* C3 as stated: the lines of a report are in the order in which the group
\* keys were first seen in the validated event stream (taken on the runs
\* whose aggregated rows are exactly the validated events).
C3_FirstSeenOrder ==
    OnlyValidRows =>
        /\ CountryWritten => FirstSeenOrder(country_file, "country")
        /\ UserWritten => FirstSeenOrder(user_file, "user_id")

\* C3 amended: the lines of a report are in ascending order of group key,
\* country codes as strings and listener ids as numbers.
C3_SortedKeyOrder ==
    /\ CountryWritten => KeyOrder(country_file, "country")
    /\ UserWritten => KeyOrder(user_file, "user_id")

\* a report of several groups whose key order is not their first-seen order
C3_Witness ==
    /\ RunFinished
    /\ Len(country_file.lines) >= 2
    /\ ~FirstSeenOrder(country_file, "country")
    /\ Len(user_file.lines) >= 2
    /\ ~FirstSeenOrder(user_file, "user_id")

----------------------------------------------------------------------------
(* C4 *)

CountsAreValidCounts(top50_dataframe, column_name) ==
    \A i \in 1..Len(top50_dataframe) :
        top50_dataframe[i].count =
            ValidCount(logfile.lines, column_name,
                       KeyOf(top50_dataframe[i], column_name),
                       top50_dataframe[i].song_id)

\* C4: the count of a (group, song) used for ranking is the number of
\* validated lines with that group key and that song, in both aggregations.
C4_CountsEqualValidatedLines ==
    /\ CountryGenerated => CountsAreValidCounts(top50_songs_per_country, "country")
    /\ UserGenerated => CountsAreValidCounts(top50_songs_per_user, "user_id")

----------------------------------------------------------------------------
(* C5 *)

InLeaderboard(top50_dataframe, column_name, k, s) ==
    \E i \in 1..Len(top50_dataframe) :
        KeyOf(top50_dataframe[i], column_name) = k /\ top50_dataframe[i].song_id = s

TopKExact(top50_dataframe, column_name) ==
    LET df == streams_dataframe
        keys == {KeyOf(df[i], column_name) : i \in 1..Len(df)}
        left_out(k) == {s \in SongsOfGroup(df, column_name, k) :
                           ~InLeaderboard(top50_dataframe, column_name, k, s)}
    IN  /\ \A i \in 1..Len(top50_dataframe) :
              /\ KeyOf(top50_dataframe[i], column_name) \in keys
              /\ top50_dataframe[i].count =
                     GroupSize(df, column_name, KeyOf(top50_dataframe[i], column_name),
                               top50_dataframe[i].song_id)
        /\ \A k \in keys :
              /\ \A s \in left_out(k) :
                    \A i \in 1..Len(top50_dataframe) :
                        KeyOf(top50_dataframe[i], column_name) = k =>
                            GroupSize(df, column_name, k, s) <= top50_dataframe[i].count
              /\ Cardinality(SongsOfGroup(df, column_name, k)) < TopK =>
                    left_out(k) = {}

\* C5: no song left out of a group's leaderboard has a strictly higher play
\* count than a song in it, and a group with fewer than 50 distinct songs has
\* all its songs in the leaderboard.
C5_TopKExact ==
    /\ CountryGenerated => TopKExact(top50_songs_per_country, "country")
    /\ UserGenerated => TopKExact(top50_songs_per_user, "user_id")

\* a leaderboard that leaves out a song of its group and holds one of a
\* higher song_id
C5_Witness ==
    /\ UserGenerated
    /\ \E k \in {streams_dataframe[i].user_id : i \in 1..Len(streams_dataframe)} :
          /\ Cardinality(SongsOfGroup(streams_dataframe, "user_id", k)) > TopK
          /\ Len(RowsOf(top50_songs_per_user, "user_id", k)) = TopK
          /\ \E s \in SongsOfGroup(streams_dataframe, "user_id", k) :
                /\ ~InLeaderboard(top50_songs_per_user, "user_id", k, s)
                /\ \E t \in SongsOfGroup(streams_dataframe, "user_id", k) :
                      t > s /\ InLeaderboard(top50_songs_per_user, "user_id", k, t)

----------------------------------------------------------------------------
(* C6 *)

PairsOrdered(line) ==
    \A i, j \in 1..Len(line.pairs) :
        i < j => \/ line.pairs[i].count > line.pairs[j].count
                 \/ /\ line.pairs[i].count = line.pairs[j].count
                    /\ line.pairs[i].song_id < line.pairs[j].song_id

\* C6: the entries of every report line are ordered by count descending and,
\* among equal counts, by song_id ascending (so of two songs tied for the
\* last place the one with the lower song_id is the one listed); taken on
\* the runs whose aggregated rows are exactly the validated events.
C6_LineOrdered ==
    OnlyValidRows =>
        /\ CountryWritten => \A i \in 1..Len(country_file.lines) :
                                PairsOrdered(country_file.lines[i])
        /\ UserWritten => \A i \in 1..Len(user_file.lines) :
                                PairsOrdered(user_file.lines[i])

----------------------------------------------------------------------------
(* C7 *)

LineBounded(line) ==
    /\ Cardinality({i \in 1..Len(line.text) : line.text[i] = ":"}) <= TopK
    /\ Len(line.pairs) <= TopK
    /\ \A i, j \in 1..Len(line.pairs) :
          i # j => line.pairs[i].song_id # line.pairs[j].song_id

\* C7: a report line lists at most 50 song:count pairs and no song more than
\* once (taken on the runs whose aggregated rows are exactly the validated
\* events).
C7_LineBounded ==
    OnlyValidRows =>
        /\ CountryWritten => \A i \in 1..Len(country_file.lines) :
                                LineBounded(country_file.lines[i])
        /\ UserWritten => \A i \in 1..Len(user_file.lines) :
                                LineBounded(user_file.lines[i])

----------------------------------------------------------------------------
(* C8 *)

\* C8: when the log file cannot be opened the run ends with the error
\* surfaced, and no step creates, truncates or writes either report.
C8_NoOutputWithoutLog ==
    [][~logfile.exists =>
          /\ country_file' = country_file
          /\ user_file' = user_file
          /\ pc = "open" => pc' = "crashed"
          /\ pc' \in {"open", "crashed"}]_vars

\* the run has failed on opening the log
C8_Witness ==
    /\ pc = "crashed"
    /\ ~logfile.exists
    /\ Len(runs) = 1
    /\ country_file = NoFile
    /\ user_file = NoFile

----------------------------------------------------------------------------
(* C9 *)

\* C9: the runs fire on successive days, each reads the log of the day before
\* the day it fires and stamps its reports with that day, and no two runs
\* read the same log file.
C9_PreviousDayLog ==
    /\ \A i \in 1..Len(runs) :
          /\ runs[i].log_day = runs[i].fired - 1
          /\ runs[i].output_day = runs[i].log_day
    /\ \A i, j \in 1..Len(runs) :
          /\ j = i + 1 => runs[j].fired = runs[i].fired + 1
          /\ i # j => runs[i].log_day # runs[j].log_day

----------------------------------------------------------------------------
(* C10 *)

\* C10: with a log that opens the run never aborts; every malformed line is
\* skipped alone, the valid lines are yielded in input order and counted, and
\* both reports are written (empty ones for an empty log).
C10_MalformedLinesSkipped ==
    logfile.exists =>
        /\ pc # "crashed"
        /\ RunFinished =>
              /\ rows = ValidRows(logfile.lines)
              /\ streams_dataframe = rows
              /\ ReportOf(country_file, "country")
              /\ ReportOf(user_file, "user_id")
              /\ logfile.lines = <<>> =>
                    country_file.lines = <<>> /\ user_file.lines = <<>>

====
